---- MODULE Spec2Model ----
(***************************************************************************)
(* Model of solitaire.py: the Solitaire board construction pipeline.       *)
(* A classmethod (triangle, cross, rhombus) lays the holes out on exact    *)
(* coordinates, __init__ removes the starting peg and runs _calc_edges,    *)
(* _calc_pos and _find_neighbor_jumper_pairs; draw_board reads the result.  *)
(* Every loop iteration of the pipeline is one step of the model.          *)
(***************************************************************************)
EXTENDS Integers, Sequences, FiniteSets, TLC

\* How far outside the range of hole identities a caller's starting_hole goes.
MaxHoleExcess == 1

----------------------------------------------------------------------------
(* Numbers.  An exact (sympy) number of the layouts is r/2 + s*sqrt(3)/2   *)
(* with integers r and s; an evaluated number (sympy Float) is kept in     *)
(* thousandths, m/1000.  sympy keeps 15 significant digits; the model      *)
(* keeps three decimals so that squares stay inside TLC's integers.        *)

Exact(r, s) == [kind |-> "exact", r |-> r, s |-> s, m |-> 0]

Float(m) == [kind |-> "Float", r |-> 0, s |-> 0, m |-> m]

\* sp.Number(v) of an integer v
Number(v) == Exact(2 * v, 0)

\* sp.sin(sp.rad(60)) = sqrt(3)/2 and sp.cos(sp.rad(60)) = 1/2
Sin60 == Exact(0, 1)

Cos60 == Exact(1, 0)

\* 1000 * 1/2 and 10^6 * sqrt(3)/2, the digits evalf() produces
HalfMilli == 500

Sqrt3HalfMicro == 866025

Abs(v) == IF v < 0 THEN 0 - v ELSE v

Sgn(v) == IF v < 0 THEN 0 - 1 ELSE 1

\* z.evalf(): the exact number rounded to the precision of a Float
EvalfIdentity(z) == z

Evalf(z) ==
    IF z.kind = "Float" THEN z
    ELSE Float(HalfMilli * z.r
               + Sgn(z.s) * ((Abs(z.s) * Sqrt3HalfMicro + 500) \div 1000))

\* k * z for a Python int k and an exact z
MulInt(k, z) == Exact(k * z.r, k * z.s)

\* z + k for a Python int k and an exact z
AddInt(z, k) == Exact(z.r + 2 * k, z.s)

\* a - b; a Float operand makes the result a Float
Sub(a, b) ==
    IF a.kind = "exact" /\ b.kind = "exact"
    THEN Exact(a.r - b.r, a.s - b.s)
    ELSE Float(Evalf(a).m - Evalf(b).m)

\* x ** 2 + y ** 2 == 1.  Exact: (r^2 + 3 s^2)/4 + (2 r s) sqrt(3)/4 summed
\* over x and y is 1 iff the rational part is 4/4 and the radical part is 0.
UnitDistance(x, y) ==
    IF x.kind = "exact" /\ y.kind = "exact"
    THEN /\ x.r * x.r + 3 * x.s * x.s + y.r * y.r + 3 * y.s * y.s = 4
         /\ 2 * x.r * x.s + 2 * y.r * y.s = 0
    ELSE Evalf(x).m * Evalf(x).m + Evalf(y).m * Evalf(y).m = 1000 * 1000

\* sp.deg(sp.atan2(y, x)) of a unit vector (x, y), in degrees in (-180, 180]
Atan2Deg(y, x) ==
    IF x.kind = "exact" /\ y.kind = "exact"
    THEN CASE x.r = 2 /\ x.s = 0 /\ y.r = 0 /\ y.s = 0 -> 0
           [] x.r = 0 - 2 /\ x.s = 0 /\ y.r = 0 /\ y.s = 0 -> 180
           [] x.r = 0 /\ x.s = 0 /\ y.r = 2 /\ y.s = 0 -> 90
           [] x.r = 0 /\ x.s = 0 /\ y.r = 0 - 2 /\ y.s = 0 -> 0 - 90
           [] x.r = 1 /\ x.s = 0 /\ y.r = 0 /\ y.s = 1 -> 60
           [] x.r = 0 - 1 /\ x.s = 0 /\ y.r = 0 /\ y.s = 1 -> 120
           [] x.r = 1 /\ x.s = 0 /\ y.r = 0 /\ y.s = 0 - 1 -> 0 - 60
           [] x.r = 0 - 1 /\ x.s = 0 /\ y.r = 0 /\ y.s = 0 - 1 -> 0 - 120
    ELSE CASE Evalf(x).m = 1000 /\ Evalf(y).m = 0 -> 0
           [] Evalf(x).m = 0 - 1000 /\ Evalf(y).m = 0 -> 180
           [] Evalf(x).m = 0 /\ Evalf(y).m = 1000 -> 90
           [] Evalf(x).m = 0 /\ Evalf(y).m = 0 - 1000 -> 0 - 90

\* (angle + 360) % 180: a line and its reverse fold to the same angle
FoldAngle360(deg) == (deg + 360) % 360

FoldAngle(deg) == (deg + 360) % 180

----------------------------------------------------------------------------
(* Layouts.  A board is the node dictionary of the graph, keyed 0..n-1 in  *)
(* insertion order; each node has the attributes peg, x and y.             *)

Hole(x, y) == [peg |-> TRUE, x |-> x, y |-> y]

RECURSIVE Flatten(_)
Flatten(ss) == IF ss = <<>> THEN <<>> ELSE Head(ss) \o Flatten(Tail(ss))

\* the nodes added in order, keyed by next(count) = 0, 1, 2, ...
Keyed(holes) == [id \in 0..(Len(holes) - 1) |-> holes[id + 1]]

\* range(n) as a sequence
Range(n) == [i \in 1..n |-> i - 1]

TriangleRows == 5

TriangleRow(i) ==
    [jj \in 1..(i + 1) |->
        Hole(AddInt(MulInt(0 - i, Cos60), jj - 1), MulInt(0 - i, Sin60))]

TriangleBoard ==
    Keyed(Flatten([ii \in 1..TriangleRows |-> TriangleRow(ii - 1)]))

\* add_holes(g, count, ys, xs)
add_holes(ys, xs) ==
    Flatten([yi \in 1..Len(ys) |->
                [xi \in 1..Len(xs) |-> Hole(Number(xs[xi]), Number(ys[yi]))]])

CrossBlocksNarrow ==
    << <<(<<0, 1>>), (<<2, 3, 4>>)>>,
       <<(<<2, 3, 4>>), Range(5)>>,
       <<(<<5, 6>>), (<<2, 3, 4>>)>> >>

\* the (ys, xs) arguments of the three add_holes calls
CrossBlocks ==
    << <<(<<0, 1>>), (<<2, 3, 4>>)>>,
       <<(<<2, 3, 4>>), Range(7)>>,
       <<(<<5, 6>>), (<<2, 3, 4>>)>> >>

CrossBoard ==
    Keyed(Flatten([b \in 1..Len(CrossBlocks) |->
                      add_holes(CrossBlocks[b][1], CrossBlocks[b][2])]))

RhombusSize == 5

\* x = x + yi * sp.cos(ang)
RhombusXUnsheared(x, yi) == AddInt(MulInt(yi, Number(1)), x)

RhombusX(x, yi) == AddInt(MulInt(yi, Cos60), x)

RhombusRow(yi) ==
    [xx \in 1..RhombusSize |-> Hole(RhombusX(xx - 1, yi), MulInt(yi, Sin60))]

RhombusBoard ==
    Keyed(Flatten([yy \in 1..RhombusSize |-> RhombusRow(yy - 1)]))

Templates == {"triangle", "cross", "rhombus"}

\* the board a classmethod hands to cls(board, starting_hole, name)
Layout(t) ==
    CASE t = "triangle" -> TriangleBoard
      [] t = "cross" -> CrossBoard
      [] t = "rhombus" -> RhombusBoard

\* starting_hole when the caller passes none
DefaultStartingHole(t) ==
    CASE t = "triangle" -> 4
      [] t = "cross" -> 16
      [] t = "rhombus" -> 20

\* the starting_hole arguments of a call: the default, every other hole, and
\* some identities outside the board
StartingHoles(t) ==
    {DefaultStartingHole(t)} \cup
    (0 - MaxHoleExcess)..(Cardinality(DOMAIN Layout(t)) - 1 + MaxHoleExcess)

----------------------------------------------------------------------------
(* The construction pipeline.                                              *)

VARIABLES
    pc,                    \* where the construction is
    template,              \* the classmethod that was called
    starting_hole,         \* its starting_hole argument
    node,                  \* board.node: key -> [peg, x, y]
    adj,                   \* board[n]: the neighbors of n, in insertion order
    edge_angle,            \* the angle attribute of each edge {n0, n1}
    pair,                  \* _calc_edges: the combination being visited
    key,                   \* _calc_pos, _find_neighbor_jumper_pairs: the node
    pos,                   \* self.pos
    neighbors,             \* the list filled by _find_neighbor_jumper_pairs
    neighbor_jumper_pairs, \* self.neighbor_jumper_pairs
    name,                  \* self.name
    total_holes,           \* self.total_holes
    max_steps,             \* self.max_steps
    error,                 \* the exception that left the constructor
    coord_readers,         \* the stages that have read an x or y attribute
    drawn                  \* what draw_board last handed to nx.draw

vars == <<pc, template, starting_hole, node, adj, edge_angle, pair, key, pos,
          neighbors, neighbor_jumper_pairs, name, total_holes, max_steps,
          error, coord_readers, drawn>>

\* the order of the calls in __init__
StageAfterSwapped(stage) ==
    CASE stage = "init" -> "calc_pos"
      [] stage = "calc_pos" -> "calc_edges"
      [] stage = "calc_edges" -> "find_pairs"
      [] stage = "find_pairs" -> "done"

StageAfter(stage) ==
    CASE stage = "init" -> "calc_edges"
      [] stage = "calc_edges" -> "calc_pos"
      [] stage = "calc_pos" -> "find_pairs"
      [] stage = "find_pairs" -> "done"

\* itertools.combinations(board.node, 2): the first pair, and the pair after p
\* (<<>> when the combinations are exhausted)
CombinationsFirst == <<0, 1>>

CombinationsNextShort(n, p) ==
    IF p[2] + 1 < n - 1 THEN <<p[1], p[2] + 1>>
    ELSE IF p[1] + 2 < n - 1 THEN <<p[1] + 1, p[1] + 2>>
    ELSE <<>>

CombinationsNext(n, p) ==
    IF p[2] + 1 < n THEN <<p[1], p[2] + 1>>
    ELSE IF p[1] + 2 < n THEN <<p[1] + 1, p[1] + 2>>
    ELSE <<>>

\* board.node[starting_hole] raises KeyError
NodeKeyErrorNegativeOnly(nd, h) == h < 0

NodeKeyError(nd, h) == h \notin DOMAIN nd

\* board.node[starting_hole]['peg'] = False
RemovePegFirst(nd, h) == [nd EXCEPT ![0].peg = FALSE]

RemovePeg(nd, h) == [nd EXCEPT ![h].peg = FALSE]

Contains(seq, v) == \E i \in 1..Len(seq) : seq[i] = v

\* board.add_edge(n0, n1): each endpoint becomes a neighbor of the other
AddEdgeDirected(a, n0, n1) ==
    [a EXCEPT ![n0] = IF Contains(@, n1) THEN @ ELSE Append(@, n1)]

AddEdge(a, n0, n1) ==
    [a EXCEPT ![n0] = IF Contains(@, n1) THEN @ ELSE Append(@, n1),
              ![n1] = IF Contains(@, n0) THEN @ ELSE Append(@, n0)]

\* n2 is not n0 and a1 == a2
JumperMatchAnyAngle(n0, n2, a1, a2) == n2 # n0

JumperMatch(n0, n2, a1, a2) == n2 # n0 /\ a1 = a2

\* the inner loop over board[n1].items() for one neighbor n1 of n0
JumpersOver(a, ang, n0, n1) ==
    LET cand == [i \in 1..Len(a[n1]) |-> <<n1, a[n1][i]>>]
        Keep(c) == JumperMatch(n0, c[2], ang[{n0, n1}], ang[{n1, c[2]}])
    IN  SelectSeq(cand, Keep)

\* temp after the loop over board[n0].items()
JumperPairs(a, ang, n0) ==
    Flatten([i \in 1..Len(a[n0]) |-> JumpersOver(a, ang, n0, a[n0][i])])

Init ==
    /\ pc = "idle"
    /\ template = ""
    /\ starting_hole = 0
    /\ node = <<>>
    /\ adj = <<>>
    /\ edge_angle = <<>>
    /\ pair = <<>>
    /\ key = 0
    /\ pos = <<>>
    /\ neighbors = <<>>
    /\ neighbor_jumper_pairs = <<>>
    /\ name = ""
    /\ total_holes = 0
    /\ max_steps = 0
    /\ error = "none"
    /\ coord_readers = {}
    /\ drawn = <<>>

\* Solitaire.triangle / cross / rhombus up to the call of cls(...)
Call(t, h) ==
    /\ pc = "idle"
    /\ pc' = "init"
    /\ template' = t
    /\ starting_hole' = h
    /\ node' = Layout(t)
    /\ adj' = [n \in DOMAIN Layout(t) |-> <<>>]
    /\ UNCHANGED <<edge_angle, pair, key, pos, neighbors,
                   neighbor_jumper_pairs, name, total_holes, max_steps,
                   error, coord_readers, drawn>>

\* __init__, line 31, when the lookup of the starting hole fails
InitRaise ==
    /\ pc = "init"
    /\ NodeKeyError(node, starting_hole)
    /\ pc' = "raised"
    /\ error' = "KeyError"
    /\ UNCHANGED <<template, starting_hole, node, adj, edge_angle, pair, key,
                   pos, neighbors, neighbor_jumper_pairs, name, total_holes,
                   max_steps, coord_readers, drawn>>

\* __init__, lines 31 to 37, and the entry into the first stage
InitOk ==
    /\ pc = "init"
    /\ ~NodeKeyError(node, starting_hole)
    /\ node' = RemovePeg(node, starting_hole)
    /\ name' = template
    /\ total_holes' = Cardinality(DOMAIN node)
    /\ max_steps' = Cardinality(DOMAIN node) - 1
    /\ pc' = StageAfter("init")
    /\ pair' = IF StageAfter("init") = "calc_edges"
               THEN CombinationsFirst ELSE <<>>
    /\ key' = 0
    /\ UNCHANGED <<template, starting_hole, adj, edge_angle, pos, neighbors,
                   neighbor_jumper_pairs, error, coord_readers, drawn>>

\* _calc_edges: one iteration of the loop over the combinations
CalcEdgesStep ==
    /\ pc = "calc_edges"
    /\ LET n0 == pair[1]
           n1 == pair[2]
           x == Sub(node[n0].x, node[n1].x)
           y == Sub(node[n0].y, node[n1].y)
           nxt == CombinationsNext(Cardinality(DOMAIN node), pair)
       IN  /\ IF UnitDistance(x, y)
              THEN /\ adj' = AddEdge(adj, n0, n1)
                   /\ edge_angle' =
                         ({n0, n1} :> FoldAngle(Atan2Deg(y, x))) @@ edge_angle
              ELSE UNCHANGED <<adj, edge_angle>>
           /\ pair' = nxt
           /\ pc' = IF nxt = <<>> THEN StageAfter("calc_edges") ELSE pc
    /\ key' = 0
    /\ coord_readers' = coord_readers \cup {"calc_edges"}
    /\ UNCHANGED <<template, starting_hole, node, pos, neighbors,
                   neighbor_jumper_pairs, name, total_holes, max_steps,
                   error, drawn>>

\* _calc_pos: one iteration of the loop over board.node.keys()
CalcPosStep ==
    /\ pc = "calc_pos"
    /\ LET x == Evalf(node[key].x)
           y == Evalf(node[key].y)
           last == key + 1 = Cardinality(DOMAIN node)
           nxt == IF last THEN StageAfter("calc_pos") ELSE pc
       IN  /\ node' = [node EXCEPT ![key].x = x, ![key].y = y]
           /\ pos' = (key :> <<x, y>>) @@ pos
           /\ key' = IF last THEN 0 ELSE key + 1
           /\ pc' = nxt
           /\ pair' = IF nxt = "calc_edges" THEN CombinationsFirst ELSE <<>>
    /\ coord_readers' = coord_readers \cup {"calc_pos"}
    /\ UNCHANGED <<template, starting_hole, adj, edge_angle, neighbors,
                   neighbor_jumper_pairs, name, total_holes, max_steps,
                   error, drawn>>

\* _find_neighbor_jumper_pairs: one iteration of the loop over board.nodes;
\* the last one also stores the tuple and returns the board to the caller
FindStep ==
    /\ pc = "find_pairs"
    /\ LET filled == (key :> JumperPairs(adj, edge_angle, key)) @@ neighbors
           last == key + 1 = Cardinality(DOMAIN node)
       IN  /\ neighbors' = filled
           /\ neighbor_jumper_pairs' =
                 IF last THEN filled ELSE neighbor_jumper_pairs
           /\ key' = IF last THEN 0 ELSE key + 1
           /\ pc' = IF last THEN StageAfter("find_pairs") ELSE pc
    /\ UNCHANGED <<template, starting_hole, node, adj, edge_angle, pair, pos,
                   name, total_holes, max_steps, error, coord_readers, drawn>>

\* draw_board(show_labels): the colors and labels handed to nx.draw
DrawBoard(show_labels) ==
    /\ pc = "done"
    /\ drawn' = [colors |-> [k \in DOMAIN node |->
                                IF node[k].peg THEN "r" ELSE "b"],
                 labels |-> [k \in DOMAIN pos |->
                                IF show_labels THEN <<k>> ELSE <<>>]]
    /\ UNCHANGED <<pc, template, starting_hole, node, adj, edge_angle, pair,
                   key, pos, neighbors, neighbor_jumper_pairs, name,
                   total_holes, max_steps, error, coord_readers>>

Next ==
    \/ \E t \in Templates : \E h \in StartingHoles(t) : Call(t, h)
    \/ InitRaise
    \/ InitOk
    \/ CalcEdgesStep
    \/ CalcPosStep
    \/ FindStep
    \/ \E show_labels \in BOOLEAN : DrawBoard(show_labels)

Spec == Init /\ [][Next]_vars

----------------------------------------------------------------------------
(* Properties.  Distances and directions are restated here on the layout's *)
(* exact coordinates, independently of the operators the pipeline uses.    *)

\* the exact coordinates the layout generator gave to the board under construction
Given == Layout(template)

Constructed == pc = "done"

\* the squared distance of the holes a and b of the layout is exactly 1
LayoutUnitApart(a, b) ==
    LET dxr == Given[a].x.r - Given[b].x.r
        dxs == Given[a].x.s - Given[b].x.s
        dyr == Given[a].y.r - Given[b].y.r
        dys == Given[a].y.s - Given[b].y.s
    IN  /\ dxr * dxr + 3 * dxs * dxs + dyr * dyr + 3 * dys * dys = 4
        /\ dxr * dxs + dyr * dys = 0

\* the holes a, b, c of the layout are evenly spaced on a line: b - a = c - b
LayoutInLine(a, b, c) ==
    /\ Sub(Given[b].x, Given[a].x) = Sub(Given[c].x, Given[b].x)
    /\ Sub(Given[b].y, Given[a].y) = Sub(Given[c].y, Given[b].y)

HasEdge(a, b) == {a, b} \in DOMAIN edge_angle

Count(seq, v) == Cardinality({i \in 1..Len(seq) : seq[i] = v})

\* C1: once a board is constructed, two distinct holes are joined by an edge
\* (each is in the other's neighbor list and the edge has an angle) if and
\* only if the exact squared distance of their layout coordinates is 1.
C1_EdgeIffUnitDistance ==
    Constructed =>
        \A a \in DOMAIN node : \A b \in DOMAIN node :
            a # b =>
                /\ HasEdge(a, b) <=> LayoutUnitApart(a, b)
                /\ Contains(adj[a], b) <=> LayoutUnitApart(a, b)

C1_Witness ==
    /\ Constructed
    /\ template = "cross"
    /\ HasEdge(0, 1)
    /\ ~HasEdge(0, 2)
    /\ ~HasEdge(0, 4)

\* C2: every stored jump pair (n1, n2) of a hole c is sound: n1 is a neighbor
\* of c, n2 is a neighbor of n1, n2 is not c, and the edges (c, n1) and
\* (n1, n2) carry the same direction angle.
C2_JumpPairsSound ==
    Constructed =>
        \A c \in DOMAIN neighbor_jumper_pairs :
            \A i \in 1..Len(neighbor_jumper_pairs[c]) :
                LET n1 == neighbor_jumper_pairs[c][i][1]
                    n2 == neighbor_jumper_pairs[c][i][2]
                IN  /\ Contains(adj[c], n1)
                    /\ Contains(adj[n1], n2)
                    /\ n2 # c
                    /\ HasEdge(c, n1) /\ HasEdge(n1, n2)
                    /\ edge_angle[{c, n1}] = edge_angle[{n1, n2}]

C2_Witness ==
    /\ Constructed
    /\ template = "triangle"
    /\ neighbor_jumper_pairs[0] = << <<1, 3>>, <<2, 5>> >>

\* C3: every triple (c, n1, n2) whose edges (c, n1) and (n1, n2) exist with
\* equal angles and n2 # c, and every triple of the layout that is evenly
\* unit-spaced on a line, has (n1, n2) exactly once in the list of c and
\* (n1, c) exactly once in the list of n2.
C3_JumpPairsComplete ==
    Constructed =>
        \A c \in DOMAIN node : \A n1 \in DOMAIN node : \A n2 \in DOMAIN node :
            (/\ n2 # c
             /\ \/ /\ HasEdge(c, n1) /\ HasEdge(n1, n2)
                   /\ edge_angle[{c, n1}] = edge_angle[{n1, n2}]
                \/ /\ c # n1
                   /\ LayoutUnitApart(c, n1)
                   /\ LayoutInLine(c, n1, n2))
            => /\ Count(neighbor_jumper_pairs[c], <<n1, n2>>) = 1
               /\ Count(neighbor_jumper_pairs[n2], <<n1, c>>) = 1

C3_Witness ==
    /\ Constructed
    /\ template = "rhombus"
    /\ Count(neighbor_jumper_pairs[0], <<1, 2>>) = 1
    /\ Count(neighbor_jumper_pairs[2], <<1, 0>>) = 1
    /\ Len(neighbor_jumper_pairs[12]) = 6
    /\ Len(neighbor_jumper_pairs[0]) = 2

\* C4: adjacency is symmetric, and the folded angle (atan2 + 360) mod 180 of
\* an edge is the same computed from either endpoint, is the angle the edge
\* carries, and lies in [0, 180).
C4_SymmetricAdjacency ==
    Constructed =>
        \A a \in DOMAIN node : \A i \in 1..Len(adj[a]) :
            LET b == adj[a][i]
                ab == FoldAngle(Atan2Deg(Sub(Given[b].y, Given[a].y),
                                         Sub(Given[b].x, Given[a].x)))
                ba == FoldAngle(Atan2Deg(Sub(Given[a].y, Given[b].y),
                                         Sub(Given[a].x, Given[b].x)))
            IN  /\ Contains(adj[b], a)
                /\ ab = ba
                /\ edge_angle[{a, b}] = ab
                /\ edge_angle[{a, b}] >= 0 /\ edge_angle[{a, b}] < 180

C4_Witness ==
    /\ Constructed
    /\ template = "triangle"
    /\ Contains(adj[0], 1) /\ Contains(adj[1], 0)
    /\ edge_angle[{0, 1}] = 60
    /\ edge_angle[{0, 2}] = 120
    /\ edge_angle[{1, 2}] = 0

\* the constructor has run line 31 without raising
PegRemoved == pc \in {"calc_edges", "calc_pos", "find_pairs", "done"}

\* C5: the triangle has exactly 15 holes in rows of 1, 2, 3, 4 and 5, and once
\* the starting peg is removed exactly one hole, the starting hole, has no
\* peg while every other hole has one.
C5_TriangleBoard ==
    (template = "triangle" /\ PegRemoved) =>
        /\ DOMAIN node = 0..14
        /\ Cardinality(DOMAIN node) = 15
        /\ \A i \in 0..4 :
              Cardinality({k \in DOMAIN Given : Given[k].y = Exact(0, 0 - i)})
                 = i + 1
        /\ starting_hole \in DOMAIN node
        /\ \A k \in DOMAIN node : node[k].peg <=> k # starting_hole
        /\ Cardinality({k \in DOMAIN node : ~node[k].peg}) = 1
        /\ Constructed => total_holes = 15 /\ max_steps = 14

C5_Witness ==
    /\ Constructed
    /\ template = "triangle"
    /\ starting_hole = DefaultStartingHole("triangle")
    /\ starting_hole = 4
    /\ ~node[4].peg
    /\ node[3].peg /\ node[14].peg

\* the holes of the 3x3 interior of the rhombus: key 5 * yi + xi
RhombusInterior == {5 * yi + xi : yi \in 1..3, xi \in 1..3}

\* C6: the rhombus has exactly 25 holes and each hole of its 3x3 interior has
\* exactly 6 neighbors.
C6_RhombusBoard ==
    (template = "rhombus" /\ Constructed) =>
        /\ DOMAIN node = 0..24
        /\ total_holes = 25
        /\ \A k \in RhombusInterior :
              /\ Len(adj[k]) = 6
              /\ Cardinality({adj[k][i] : i \in 1..Len(adj[k])}) = 6
              /\ Cardinality({b \in DOMAIN node : HasEdge(k, b)}) = 6

C6_Witness ==
    /\ Constructed
    /\ template = "rhombus"
    /\ {adj[12][i] : i \in 1..Len(adj[12])} = {7, 8, 11, 13, 16, 17}

\* the integer coordinates (x, y) of the three blocks of the cross
CrossCells ==
    ({2, 3, 4} \X {0, 1}) \cup ((0..6) \X {2, 3, 4}) \cup ({2, 3, 4} \X {5, 6})

\* C7: the cross has exactly 33 holes with the distinct identities 0..32,
\* placed one to one on the cells of the top arm, the middle band of rows of
\* 7 and the bottom arm.
C7_CrossBoard ==
    (template = "cross" /\ pc # "idle") =>
        /\ DOMAIN node = 0..32
        /\ Cardinality(DOMAIN node) = 33
        /\ \A k \in DOMAIN Given :
              /\ Given[k].x.s = 0 /\ Given[k].y.s = 0
              /\ Given[k].x.r % 2 = 0 /\ Given[k].y.r % 2 = 0
        /\ {<<Given[k].x.r \div 2, Given[k].y.r \div 2>> : k \in DOMAIN Given}
              = CrossCells
        /\ Cardinality(CrossCells) = 33
        /\ pc = "init" => \A k \in DOMAIN node : node[k] = Given[k]
        /\ Constructed => total_holes = 33

C7_Witness ==
    /\ Constructed
    /\ template = "cross"
    /\ total_holes = 33
    /\ Given[0].x = Number(2) /\ Given[0].y = Number(0)
    /\ Given[6].x = Number(0) /\ Given[6].y = Number(2)
    /\ Given[32].x = Number(4) /\ Given[32].y = Number(6)

\* no attribute of a Solitaire object has been set and no stage has run
NothingBuilt ==
    /\ name = "" /\ total_holes = 0 /\ max_steps = 0
    /\ edge_angle = <<>>
    /\ \A k \in DOMAIN adj : adj[k] = <<>>
    /\ pos = <<>>
    /\ neighbors = <<>>
    /\ neighbor_jumper_pairs = <<>>
    /\ \A k \in DOMAIN node : node[k] = Given[k]

OutOfRange == starting_hole < 0 \/ starting_hole >= Cardinality(DOMAIN node)

\* C8 as stated: a starting hole out of range makes the construction fail
\* with InvalidStartingHole and nothing of a board is built.
C8_AsStated ==
    (pc \notin {"idle", "init"} /\ OutOfRange) =>
        /\ pc = "raised"
        /\ error = "InvalidStartingHole"
        /\ NothingBuilt

\* C8, amended: a starting hole out of range makes the construction fail with
\* the KeyError of the node lookup, at the first statement of __init__, and
\* nothing of a board is built; a starting hole in range never fails.
C8_KeyErrorNothingBuilt ==
    /\ (pc \notin {"idle", "init"} /\ OutOfRange) =>
          /\ pc = "raised"
          /\ error = "KeyError"
          /\ NothingBuilt
    /\ (pc \notin {"idle", "init"} /\ ~OutOfRange) =>
          /\ pc # "raised"
          /\ error = "none"

C8_Witness ==
    /\ pc = "raised"
    /\ template = "triangle"
    /\ starting_hole = 15
    /\ error = "KeyError"

\* _calc_pos has replaced the coordinates of hole k
Evaluated(k) ==
    \/ pc = "calc_pos" /\ k < key
    \/ pc \in {"find_pairs", "done"}

\* C9 as stated: once _calc_edges has finished, every hole's stored x and y
\* are the exact values the layout generator assigned.
C9_AsStated ==
    pc \in {"calc_pos", "find_pairs", "done"} =>
        \A k \in DOMAIN node :
            node[k].x = Given[k].x /\ node[k].y = Given[k].y

\* C9, amended: the stored coordinates are the layout's exact values up to the
\* end of _calc_edges; _calc_pos then replaces each hole's x and y by the
\* Float evaluation of its exact value, which is also what pos holds, and
\* they stay so ever after.
C9_ExactThenEvaluated ==
    \A k \in DOMAIN node :
        IF Evaluated(k)
        THEN /\ node[k].x.kind = "Float" /\ node[k].y.kind = "Float"
             /\ node[k].x = Evalf(Given[k].x) /\ node[k].y = Evalf(Given[k].y)
             /\ 2 * node[k].x.m = 1000 * Given[k].x.r
             /\ k \in DOMAIN pos /\ pos[k] = <<node[k].x, node[k].y>>
        ELSE /\ node[k].x = Given[k].x /\ node[k].y = Given[k].y
             /\ k \notin DOMAIN pos

C9_Witness ==
    /\ Constructed
    /\ template = "triangle"
    /\ Given[14].y = Exact(0, 0 - 4)
    /\ node[14].y = Float(0 - 3464)
    /\ node[14].x = Float(2000)

\* every edge of the layout exists: the edge set is complete
EdgesComplete ==
    \A a \in DOMAIN node : \A b \in DOMAIN node :
        (a # b /\ LayoutUnitApart(a, b)) => HasEdge(a, b)

\* C10: the stages run in order, each on the complete output of the one
\* before: while _calc_edges runs every coordinate is exact and _calc_pos has
\* not started; a coordinate is a Float only once the edge set is complete;
\* _find_neighbor_jumper_pairs runs on the complete edge set, after
\* _calc_pos has finished, and reads no coordinate.
C10_StagesInOrder ==
    /\ pc = "calc_edges" =>
          /\ \A k \in DOMAIN node :
                node[k].x.kind = "exact" /\ node[k].y.kind = "exact"
          /\ pos = <<>>
          /\ "calc_pos" \notin coord_readers
          /\ neighbors = <<>>
    /\ (\E k \in DOMAIN node :
           node[k].x.kind = "Float" \/ node[k].y.kind = "Float") =>
          /\ pc \in {"calc_pos", "find_pairs", "done"}
          /\ pair = <<>>
          /\ EdgesComplete
    /\ pc = "calc_pos" => neighbors = <<>>
    /\ (pc \in {"find_pairs", "done"} \/ neighbors # <<>>) =>
          /\ EdgesComplete
          /\ DOMAIN pos = DOMAIN node
          /\ coord_readers = {"calc_edges", "calc_pos"}
    /\ "find_pairs" \notin coord_readers
    /\ Constructed => DOMAIN neighbor_jumper_pairs = DOMAIN node

C10_Witness ==
    /\ pc = "find_pairs"
    /\ key = 3
    /\ template = "cross"
    /\ DOMAIN neighbors = {0, 1, 2}
    /\ EdgesComplete
    /\ node[0].x.kind = "Float"

====
